---------------------------- MODULE Spec2Model ----------------------------
(***************************************************************************)
(* Clipboard ingestion pipeline of clipboard-app (src-tauri).              *)
(*                                                                         *)
(*   ChangeDetector   clipboard/monitor.rs  ClipboardMonitor               *)
(*   EntryAggregator  state.rs              AppState::start_database_save_task *)
(*   store            database/mod.rs       table clipboard_entries        *)
(*                                                                         *)
(* Every tokio task is a process of the model.  A step of a task runs      *)
(* from one .await on a shared resource to the next.                       *)
(***************************************************************************)
EXTENDS Integers, Sequences, FiniteSets, TLC

(***************************************************************************)
(* Bounds of the model.                                                    *)
(***************************************************************************)
\* start_monitoring calls that find the monitor slot empty and spawn tasks.
MaxStarts == 2
\* ClipboardEntry drafts created by all polling loops together.
MaxDrafts == 3

(***************************************************************************)
(* Values.  Option<T> and Result<T, _> are sequences of length at most 1.  *)
(***************************************************************************)
None == <<>>
Some(x) == <<x>>
Unwrap(opt) == opt[1]

\* utils/app_detector.rs AppInfo { name, bundle_id: Option<String> }.
AppInfo(name, bundle_id) == [name |-> name, bundle_id |-> bundle_id]

SelfBundleId == "com.clipboard-app.clipboardmanager"
SelfApp == AppInfo("Clipboard App", Some(SelfBundleId))
EditorApp == AppInfo("Editor", Some("com.example.editor"))
KeychainApp == AppInfo("Keychain Access", Some("com.apple.keychainaccess"))

\* What get_active_app_info() returns in the model.
FrontApps == {None, Some(EditorApp), Some(SelfApp), Some(KeychainApp)}

\* What Clipboard::get_text() and Clipboard::get_image() return in the model.
PixelsImage == [width |-> 2, height |-> 2, bytes |-> "pixels"]
Texts == {"alpha", "beta"}
Images == {PixelsImage}

\* str::trim on the texts of the model (none carries outer whitespace).
Trim(text) == text

\* monitor.rs:128 starts_with("data:image/") && contains(";base64,").
DataImageTexts == {"data:image/png;base64,AAAA"}
\* A detector without the data:image guard.
NoBase64Guard(trimmed_text) == FALSE

IsBase64Image(trimmed_text) == trimmed_text \in DataImageTexts

\* Sha256 of the bytes, as a hex string: injective on the contents of the model.
calculate_hash(data) == <<"sha256", data>>

\* The configuration: AppConfig::default() for excluded_apps_v2, and a legacy
\* excluded_apps entry kept by a configuration saved with update_config.
excluded_apps == {"com.example.vault"}
excluded_apps_v2 == {[name |-> "1Password 7 - Password Manager",
                      bundle_id |-> "com.1password.1password7"],
                     [name |-> "Keychain Access",
                      bundle_id |-> "com.apple.keychainaccess"]}

\* An exclusion check that reads the v2 list alone.
is_app_excluded_v2(bundle_id) ==
    \E excluded \in excluded_apps_v2 : excluded.bundle_id = bundle_id

is_app_excluded(bundle_id) ==
    \/ \E excluded \in excluded_apps : excluded = bundle_id
    \/ \E excluded \in excluded_apps_v2 : excluded.bundle_id = bundle_id

\* A text of one byte more than 1 MiB; the other texts have a few bytes.
BigText == "big"

\* A text of 101 bytes whose byte 100 is inside a two-byte character: "a"
\* followed by fifty "é".
UnicodeText == "unicode"

\* is_text_size_valid: len / (1024 * 1024) <= max_size_mb, max_size_mb = 1.0.
MaxTextBytes == 1048576
TextLen(trimmed_text) ==
    IF trimmed_text = BigText THEN MaxTextBytes + 1
    ELSE IF trimmed_text = UnicodeText THEN 101
    ELSE 5
is_text_size_valid(trimmed_text) == TextLen(trimmed_text) <= MaxTextBytes

\* The texts offered to the detector where its vetoes are checked: a plain
\* one, a data:image URI and an oversized one.
PolicyTexts == {"alpha"} \cup DataImageTexts \cup {BigText}

\* The texts offered to the detector where its classification is checked: a
\* plain one and a multi-byte one.
UnicodeTexts == {"alpha", UnicodeText}

\* The frontmost applications there: those of FrontApps and one whose bundle
\* id is in the legacy exclusion list.
VaultApp == AppInfo("Vault", Some("com.example.vault"))
PolicyApps == FrontApps \cup {Some(VaultApp)}

\* monitor.rs:63-83 is_self_app; name.contains(..) on the names of the model.
SelfNames == {"clipboard-app", "Clipboard App"}
IsSelfApp(app_info) ==
    IF app_info = None THEN FALSE
    ELSE \/ Unwrap(app_info).bundle_id = Some(SelfBundleId)
         \/ Unwrap(app_info).name \in SelfNames

(***************************************************************************)
(* ContentDetector (clipboard/content_detector.rs).                        *)
(***************************************************************************)
\* An i64 beyond the 32-bit integers of TLC: n = hi * Limb + lo with
\* 0 <= lo < Limb, compared as i64 values are.
Limb == 1000000
I64(hi, lo) == <<hi, lo>>
Less(a, b) == a[1] < b[1] \/ (a[1] = b[1] /\ a[2] < b[2])
\* (from..to).contains(&num)
RangeContains(from, to, num) == ~Less(num, from) /\ Less(num, to)
\* The number left as it is, seconds taken for milliseconds.
Unscaled(num) == num

\* num * 1000
TimesThousand(num) ==
    I64(num[1] * 1000 + (num[2] \div 1000), (num[2] % 1000) * 1000)

\* What the rules of the cascade read of a trimmed text: the rules other than
\* the timestamp rule whose predicate holds on it, what detect_timestamp
\* finds in it, and whether the text is longer than 100 bytes with byte 100
\* inside a multi-byte character.
RuleNames == {"url", "ip_address", "email", "color", "json", "command",
              "markdown", "base64", "code"}
TextProfile(rules, stamp, split_at_100) ==
    [rules |-> rules, stamp |-> stamp, split_at_100 |-> split_at_100]

\* The text as detect_timestamp reads it: it parses as an i64, matches the
\* ISO 8601 pattern, matches the date pattern, or none of these.
NoStamp == [kind |-> "none"]
IntStamp(num) == [kind |-> "int", num |-> num]
IsoStamp(text) == [kind |-> "iso8601", text |-> text]
DateStamp(text) == [kind |-> "date", text |-> text]

TimestampFormats(unix_ms, iso8601, date_string) ==
    [unix_ms |-> unix_ms, iso8601 |-> iso8601, date_string |-> date_string]

SecondsFrom == I64(946, 684800)
SecondsTo == I64(4102, 444800)
MillisFrom == I64(946684, 800000)
MillisTo == I64(7258118, 400000)

\* content_detector.rs:350-389.
detect_timestamp(stamp) ==
    IF stamp.kind = "int" /\ RangeContains(SecondsFrom, SecondsTo, stamp.num)
    THEN Some(TimestampFormats(Some(TimesThousand(stamp.num)), None, None))
    ELSE IF stamp.kind = "int"
            /\ RangeContains(MillisFrom, MillisTo, stamp.num)
    THEN Some(TimestampFormats(Some(stamp.num), None, None))
    ELSE IF stamp.kind = "iso8601"
    THEN Some(TimestampFormats(None, Some(stamp.text), None))
    ELSE IF stamp.kind = "date"
    THEN Some(TimestampFormats(None, None, Some(stamp.text)))
    ELSE None

\* struct ContentMetadata with every field None.
NoMetadata ==
    [detected_language |-> None, url_parts |-> None, color_formats |-> None,
     timestamp_formats |-> None, base64_metadata |-> None]

Returned(subtype, metadata) ==
    [kind |-> "returned", subtype |-> subtype, metadata |-> metadata]
Panicked == [kind |-> "panicked"]

\* content_detector.rs:71-78: the arguments of log::trace! are evaluated
\* when the trace level is enabled, and &trimmed[..100] panics when byte 100
\* is not a char boundary.
TraceSlicePanics(text, trace_enabled) ==
    trace_enabled /\ text.split_at_100

\* A cascade that asks the code rule first.
detect_code_first(text, trace_enabled) ==
    IF "code" \in text.rules
    THEN Returned("code",
                  Some([NoMetadata EXCEPT !.detected_language = Some("lang")]))
    ELSE Returned("plain_text", None)

\* content_detector.rs:65-180 ContentDetector::detect.
detect(text, trace_enabled) ==
    IF TraceSlicePanics(text, trace_enabled) THEN Panicked
    ELSE IF "url" \in text.rules
    THEN Returned("url", Some([NoMetadata EXCEPT !.url_parts = Some("parts")]))
    ELSE IF "ip_address" \in text.rules
    THEN Returned("ip_address", None)
    ELSE IF "email" \in text.rules
    THEN Returned("email", None)
    ELSE IF "color" \in text.rules
    THEN Returned("color",
                  Some([NoMetadata EXCEPT !.color_formats = Some("formats")]))
    ELSE IF "json" \in text.rules
    THEN Returned("json", None)
    ELSE IF "command" \in text.rules
    THEN Returned("command", None)
    ELSE IF detect_timestamp(text.stamp) # None
    THEN Returned("timestamp",
                  Some([NoMetadata EXCEPT !.timestamp_formats =
                                             detect_timestamp(text.stamp)]))
    ELSE IF "markdown" \in text.rules
    THEN Returned("markdown", None)
    ELSE IF "base64" \in text.rules
    THEN Returned("base64",
                  Some([NoMetadata EXCEPT !.base64_metadata = Some("hint")]))
    ELSE IF "code" \in text.rules
    THEN Returned("code",
                  Some([NoMetadata EXCEPT !.detected_language = Some("lang")]))
    ELSE Returned("plain_text", None)

\* What detect_base64 reads of a text: whether it passes the checks made
\* before the decoding (content_detector.rs:464-540), the number of its
\* whitespace bytes, its length stripped of them, the number of '=' at its
\* end, and whether the rest is of the Base64 alphabet with canonical last
\* bits.
Base64Text(gate, whitespace, stripped, padding, well_formed) ==
    [gate |-> gate, whitespace |-> whitespace, stripped |-> stripped,
     padding |-> padding, well_formed |-> well_formed]

\* general_purpose::STANDARD.decode(&cleaned), Ok(decoded) by decoded.len():
\* the standard engine takes a length that is a multiple of 4 whose last
\* group ends with at most two '='.
decode(text) ==
    IF /\ text.well_formed
       /\ text.stripped % 4 = 0
       /\ text.padding <= 2
       /\ text.padding < text.stripped
    THEN Some(3 * (text.stripped \div 4) - text.padding)
    ELSE None

\* struct Base64Metadata (content_detector.rs:55), without content_hint.
Base64Metadata(estimated_original_size, encoded_size, encoding_efficiency) ==
    [estimated_original_size |-> estimated_original_size,
     encoded_size |-> encoded_size,
     encoding_efficiency |-> encoding_efficiency]

\* A detection that sizes the data from the length of the text, without
\* decoding it.
estimate_base64(text) ==
    IF ~text.gate THEN None
    ELSE Some(Base64Metadata((text.stripped * 3) \div 4, text.stripped,
                             <<1, 1>>))

\* content_detector.rs:462-592. size_ratio, an f32, is the fraction
\* <<encoded_size, expected_encoded_size>>; it is compared with 1 - tolerance
\* and 1 + tolerance in tenths, which is what the f32 comparison gives for
\* sizes below 2^24.
detect_base64(text) ==
    IF ~text.gate THEN None
    ELSE IF (text.stripped - text.padding) % 4 = 1 THEN None
    ELSE IF decode(text) = None THEN None
    ELSE LET encoded_size == text.stripped
             decoded_size == Unwrap(decode(text))
             \* ((decoded_size * 4).div_ceil(3) + 3) & !3
             expected_encoded_size ==
                 (((((decoded_size * 4) + 2) \div 3) + 3) \div 4) * 4
             tolerance == IF decoded_size <= 10 THEN 5 ELSE 2
         IN  IF \/ encoded_size * 10 < (10 - tolerance) * expected_encoded_size
                \/ encoded_size * 10 > (10 + tolerance) * expected_encoded_size
             THEN None
             ELSE Some(Base64Metadata(decoded_size, encoded_size,
                                      <<encoded_size, expected_encoded_size>>))

\* What the rules read of the texts of the model: no rule holds on them.
ProfileOf(trimmed_text) ==
    TextProfile({}, NoStamp, trimmed_text = UnicodeText)

\* monitor.rs:175 ContentDetector::detect(&trimmed_text) on the texts of the
\* model.
ContentDetect(trimmed_text, trace_enabled) ==
    detect(ProfileOf(trimmed_text), trace_enabled)

SourceApp(app_info) ==
    IF app_info = None THEN None ELSE Some(Unwrap(app_info).name)
BundleId(app_info) ==
    IF app_info = None THEN None ELSE Unwrap(app_info).bundle_id

\* models/mod.rs ClipboardEntry::new, with the fields the monitor sets after it.
\* uuid is the fresh Uuid::new_v4(), now is Utc::now().timestamp_millis().
ClipboardEntry(uuid, now, content_type, content_data, content_hash, app_info, file_path, content_subtype, metadata) ==
    [id |-> uuid,
     content_hash |-> content_hash,
     content_type |-> content_type,
     content_data |-> content_data,
     source_app |-> SourceApp(app_info),
     created_at |-> now,
     copy_count |-> 1,
     file_path |-> file_path,
     is_favorite |-> FALSE,
     content_subtype |-> content_subtype,
     metadata |-> metadata,
     app_bundle_id |-> BundleId(app_info)]

\* "imgs/{uuid}.png" of save paths (processor.rs:97, 148, 156), by uuid.
ImagePaths == <<"imgs/1.png", "imgs/2.png", "imgs/3.png", "imgs/4.png",
                "imgs/5.png", "imgs/6.png", "imgs/7.png", "imgs/8.png">>
ImagePath(uuid) == ImagePaths[uuid]

\* Outcomes of the two ingestion attempts of monitor.rs:271-361:
\* process_image_with_dimensions succeeds; it fails and process_image
\* succeeds; both fail (decoding or writing the file).
IngestResults == {"ok", "fallback", "failed"}

(***************************************************************************)
(* ContentProcessor (clipboard/processor.rs) on headerless pixel buffers,  *)
(* a buffer being known by its length in bytes.                            *)
(***************************************************************************)
\* processor.rs:263-279.
common_dimensions ==
    << <<2880, 1800>>, <<2560, 1600>>, <<2304, 1440>>, <<2048, 1280>>,
       <<1920, 1200>>, <<1680, 1050>>, <<1440, 900>>, <<1280, 800>>,
       <<1920, 1080>>, <<2560, 1440>>, <<3840, 2160>>,
       <<1366, 768>>, <<1280, 720>>, <<1600, 900>>,
       <<800, 600>>, <<1024, 768>>, <<640, 480>>,
       <<1024, 600>>, <<800, 480>>, <<600, 400>>, <<400, 300>>,
       <<300, 200>>, <<200, 150>>, <<150, 100>>, <<100, 100>>,
       <<375, 812>>, <<414, 896>>, <<390, 844>>, <<428, 926>>,
       <<512, 512>>, <<1024, 1024>>, <<256, 256>>, <<128, 128>>,
       <<64, 64>>, <<32, 32>>, <<16, 16>> >>

\* processor.rs:291.
scales == <<2, 3, 4, 5, 6, 7, 8, 10, 12, 15, 20>>

\* (n as f64).sqrt() as u32 below 2^31: the integer part of the square root.
RECURSIVE SqrtBetween(_, _, _)
SqrtBetween(n, low, high) ==
    IF low = high THEN low
    ELSE LET mid == (low + high + 1) \div 2
         IN  IF mid * mid <= n
             THEN SqrtBetween(n, mid, high)
             ELSE SqrtBetween(n, low, mid - 1)
isqrt(n) == SqrtBetween(n, 0, 46340)

\* An inference that takes every buffer for a single row of pixels.
single_row(len) == Some(<<len \div 4, 1>>)

\* An inference that takes the whole pixels of every buffer of 16 bytes or
\* more for a single row.
whole_pixels(len) == IF len < 16 THEN None ELSE Some(<<len \div 4, 1>>)

\* processor.rs:249-379. The tests `w * h == pixel_count` are made by
\* division, the products of the scaled candidates being above 2^31.
detect_raw_rgba_data(len) ==
    IF len < 16 \/ len % 4 # 0 THEN None
    ELSE
    LET pixel_count == len \div 4
        Makes(w, h) ==
            w > 0 /\ h > 0 /\ pixel_count % w = 0 /\ pixel_count \div w = h
        \* 1: the common resolutions, in the order of the table
        table_hits == {i \in DOMAIN common_dimensions :
                          Makes(common_dimensions[i][1],
                                common_dimensions[i][2])}
        \* 1.5: each base, each scale, divided then multiplied
        Candidate(b, s, up) ==
            IF up = 0
            THEN <<common_dimensions[b][1] \div scales[s],
                   common_dimensions[b][2] \div scales[s]>>
            ELSE <<common_dimensions[b][1] * scales[s],
                   common_dimensions[b][2] * scales[s]>>
        Position(b, s, up) == ((b - 1) * Len(scales) + (s - 1)) * 2 + up
        scaled_hits ==
            {c \in (DOMAIN common_dimensions) \X (DOMAIN scales) \X {0, 1} :
                Makes(Candidate(c[1], c[2], c[3])[1],
                      Candidate(c[1], c[2], c[3])[2])}
        first_scaled ==
            CHOOSE c \in scaled_hits :
                \A d \in scaled_hits :
                    Position(c[1], c[2], c[3]) <= Position(d[1], d[2], d[3])
        \* 2: a perfect square
        sqrt_int == isqrt(pixel_count)
        \* 3: widths around the square root; the ratio width / height is
        \* compared as a fraction
        Near(w, h, p, q) ==
            (IF w * q >= p * h THEN w * q - p * h ELSE p * h - w * q) * 20
                < h * q
        NearCommonRatio(w, h) ==
            \/ Near(w, h, 16, 9) \/ Near(w, h, 4, 3) \/ Near(w, h, 3, 2)
            \/ Near(w, h, 1, 1) \/ Near(w, h, 2, 3) \/ Near(w, h, 3, 4)
            \/ Near(w, h, 9, 16)
        Reasonable(w) ==
            /\ w > 0
            /\ pixel_count % w = 0
            /\ LET h == pixel_count \div w
               IN  /\ w * 10 >= h
                   /\ w <= h * 10
                   /\ NearCommonRatio(w, h) \/ (w >= 10 /\ h >= 10)
        near_hits ==
            {w \in (IF sqrt_int > 100 THEN sqrt_int - 100 ELSE 0)
                       ..(sqrt_int + 100) : Reasonable(w)}
        \* 4: the wider search
        Acceptable(w) ==
            /\ w > 0
            /\ pixel_count % w = 0
            /\ LET h == pixel_count \div w
               IN  /\ h >= 10
                   /\ w >= 10
                   /\ w * 20 >= h
                   /\ w <= h * 20
        wide_hits ==
            {w \in isqrt(pixel_count \div 4)..isqrt(2 * pixel_count) :
                Acceptable(w)}
        Least(widths) == CHOOSE w \in widths : \A v \in widths : w <= v
    IN  IF table_hits # {}
        THEN Some(common_dimensions[Least(table_hits)])
        ELSE IF scaled_hits # {}
        THEN Some(Candidate(first_scaled[1], first_scaled[2],
                            first_scaled[3]))
        ELSE IF sqrt_int * sqrt_int = pixel_count
        THEN Some(<<sqrt_int, sqrt_int>>)
        ELSE IF near_hits # {}
        THEN Some(<<Least(near_hits), pixel_count \div Least(near_hits)>>)
        ELSE IF wide_hits # {}
        THEN Some(<<Least(wide_hits), pixel_count \div Least(wide_hits)>>)
        ELSE IF pixel_count > 100 /\ pixel_count < 1000000
        THEN Some(<<pixel_count, 1>>)
        ELSE None

\* What an ingestion returns: Ok("imgs/{uuid}.png") with the pixel
\* dimensions of the file written there, or Err.
Saved(width, height) == [kind |-> "saved", width |-> width, height |-> height]
Failed == [kind |-> "failed"]

\* processor.rs:167-175 on rgba_data, a sequence of bytes (rgba_data[i] of
\* the code is rgba_data[i + 1] here): the alpha bytes of the first pixels
\* are sampled and those that are 255 or 0 counted.
needs_bgra_conversion(rgba_data) ==
    LET sample_size == IF Len(rgba_data) \div 4 < 100
                       THEN Len(rgba_data) \div 4 ELSE 100
        alpha_values == [i \in 0..(sample_size - 1) |-> rgba_data[i * 4 + 3 + 1]]
        valid_alpha_count ==
            Cardinality({i \in DOMAIN alpha_values :
                            alpha_values[i] = 255 \/ alpha_values[i] = 0})
    IN  valid_alpha_count < sample_size \div 2

\* processor.rs:162 and 176-185: the copy of the buffer, bytes 0 and 2 of
\* every whole pixel exchanged when the conversion is needed.
converted_data(rgba_data) ==
    IF needs_bgra_conversion(rgba_data)
    THEN [k \in DOMAIN rgba_data |->
             IF (k - 1) \div 4 >= Len(rgba_data) \div 4 THEN rgba_data[k]
             ELSE IF (k - 1) % 4 = 0 THEN rgba_data[k + 2]
             ELSE IF (k - 1) % 4 = 2 THEN rgba_data[k - 2]
             ELSE rgba_data[k]]
    ELSE rgba_data

\* image::ImageBuffer::from_raw(width, height, buf).is_some()
from_raw(width, height, len) == width * height * 4 <= len

\* processor.rs:151-219. The channel swap changes no length; saved is
\* whether dynamic_img.save wrote the file.
process_raw_rgba_data(len, width, height, saved) ==
    IF from_raw(width, height, len)
    THEN IF saved THEN Saved(width, height) ELSE Failed
    ELSE IF height # width /\ from_raw(height, width, len)
    THEN IF saved THEN Saved(height, width) ELSE Failed
    ELSE Failed

\* What infer::get and is_likely_image_data (processor.rs:80-94, 381-424)
\* read at the head of a buffer: the signature of an image container, of
\* another file type, or none.
ImageContainers == {"png", "jpeg", "gif", "bmp", "tiff", "webp"}
Containers == ImageContainers \cup {"pdf", "none"}

\* What the codec path returns: Ok("imgs/{uuid}.png") with the image
\* decoded by the codec of its container, or Ok of the bytes written as
\* they are under the extension of the container.
Decoded(container) == [kind |-> "decoded", container |-> container]
Verbatim(container) == [kind |-> "verbatim", container |-> container]

\* processor.rs:79-140: the container is sniffed, the image decoded
\* (load_from_memory, then each format in turn) and saved; the bytes are
\* written as they are when no codec decodes them.
decode_container(image_data, decodes, saved) ==
    IF image_data.container \notin ImageContainers THEN Failed
    ELSE IF ~saved THEN Failed
    ELSE IF decodes THEN Decoded(image_data.container)
    ELSE Verbatim(image_data.container)

\* processor.rs:38-141. image_data is a buffer known by len, its length in
\* bytes, and container, the signature at its head.
process_image(image_data, decodes, saved) ==
    LET len == image_data.len
    IN
    IF detect_raw_rgba_data(len) # None
    THEN process_raw_rgba_data(len, Unwrap(detect_raw_rgba_data(len))[1],
                               Unwrap(detect_raw_rgba_data(len))[2], saved)
    ELSE IF len % 4 = 0 /\ len >= 64
    THEN LET pixel_count == len \div 4
             sqrt_pixels == isqrt(pixel_count)
             possible_dimensions ==
                 << <<sqrt_pixels, pixel_count \div sqrt_pixels>>,
                    <<pixel_count \div sqrt_pixels, sqrt_pixels>>,
                    <<sqrt_pixels + 1, pixel_count \div (sqrt_pixels + 1)>>,
                    <<pixel_count \div (sqrt_pixels + 1), sqrt_pixels + 1>> >>
             tried == {i \in 1..4 :
                         /\ possible_dimensions[i][1] > 0
                         /\ possible_dimensions[i][2] > 0
                         /\ possible_dimensions[i][1]
                               * possible_dimensions[i][2] = pixel_count}
             first == CHOOSE i \in tried : \A k \in tried : i <= k
         IN  IF tried # {} /\ saved
             THEN process_raw_rgba_data(len, possible_dimensions[first][1],
                                        possible_dimensions[first][2], saved)
             ELSE decode_container(image_data, decodes, saved)
    ELSE decode_container(image_data, decodes, saved)

\* processor.rs:21-36.
process_image_with_dimensions(image_data, width, height, decodes, saved) ==
    IF image_data.len = width * height * 4
    THEN process_raw_rgba_data(image_data.len, width, height, saved)
    ELSE process_image(image_data, decodes, saved)


(***************************************************************************)
(* The retention settings (config/mod.rs).                                 *)
(***************************************************************************)
\* config/mod.rs:30-34 enum ExpiryOption.
Never == [kind |-> "never"]
Days(days) == [kind |-> "days", days |-> days]

\* config/mod.rs:37-42.
as_days(expiry) == IF expiry.kind = "days" THEN Some(expiry.days) ELSE None

\* The fields of AppConfig that the cleanup reads (config/mod.rs:45-54).
AppConfig(text_expiry, image_expiry) ==
    [text |-> [expiry |-> text_expiry], image |-> [expiry |-> image_expiry]]

\* config/mod.rs:56-66 AppConfig::default().
DefaultConfig == AppConfig(Never, Never)

\* The retention periods a user sets in the model, in days.
ExpiryDays == 1
Expiries == {Never, Days(ExpiryDays)}

\* 24 * 60 * 60 * 1000 (state.rs:670) in the unit of the model's clock,
\* which counts days: every draft is created a day after the one before.
DayMs == 1

(***************************************************************************)
(* State.                                                                  *)
(***************************************************************************)
VARIABLES
    clipboard,    \* the system clipboard: [text, image], each a read result
    front,        \* the frontmost application: Option<AppInfo>
    monitor,      \* AppState.monitor is Some(_)
    starting,     \* start_monitoring holds the monitor lock between the
                  \* spawn of the polling loop and the subscribe of the save task
    app_handle,   \* AppState.app_handle is Some(_)
    loops,        \* the spawned polling tasks: [pc, last_hash]
    savers,       \* the spawned save tasks: [pc, rx, entry, existing, emit]
    store,        \* the rows of table clipboard_entries
    sent,         \* content_hash of every draft passed to tx.send, in order
    event,        \* what the last step did that an observer can see
    input,        \* the argument a pure function of the program is applied to
    output,       \* what that application produced; NoOutput before it
    config,       \* ConfigManager.config: the expiry of texts and of images
    skip_next_change, \* AppState.skip_next_change
    current_shortcut, \* AppState.current_shortcut
    unregistering \* the call of unregister_global_shortcut: [pc, holds, result]

\* What the global shortcut commands read and write.
shortcutState == <<current_shortcut, unregistering>>

\* What the commands of the application other than those on the monitor and
\* the store read and write.
commandState == <<config, skip_next_change, shortcutState>>

vars == <<clipboard, front, monitor, starting, app_handle, loops, savers,
          store, sent, event, input, output, commandState>>

NoEvent == [kind |-> "none"]
NoInput == [kind |-> "none"]
NoOutput == [kind |-> "none"]

\* No call of unregister_global_shortcut is under way: no MutexGuard held.
NoCall == [pc |-> "idle", holds |-> {}, result |-> "none"]

\* tokio::sync::Mutex::lock().await returns when no guard of the mutex is
\* alive. The guards that live across an await are those of
\* unregister_global_shortcut.
Free(lock) == lock \notin unregistering.holds

\* Uuid::new_v4() and Utc::now() at the creation of the next draft: the
\* model's clock advances by one with every draft.
NextUuid == Len(sent) + 1
UtcNow == Len(sent) + 1

\* AppState::new (state.rs:32-55): nothing monitored, nothing stored.
Constructed ==
    /\ clipboard = [text |-> None, image |-> None]
    /\ front = Some(EditorApp)
    /\ monitor = FALSE
    /\ starting = FALSE
    /\ app_handle = FALSE
    /\ loops = <<>>
    /\ savers = <<>>
    /\ store = {}
    /\ sent = <<>>
    /\ event = NoEvent
    /\ config = DefaultConfig
    /\ skip_next_change = FALSE
    /\ current_shortcut = None
    /\ unregistering = NoCall

Init ==
    /\ Constructed
    /\ input = NoInput
    /\ output = NoOutput

(***************************************************************************)
(* Environment: the user copies something, switches application.           *)
(***************************************************************************)
\* A copy of plain text: the clipboard offers the text and no image.
CopyText(text) ==
    /\ clipboard # [text |-> Some(text), image |-> None]
    /\ clipboard' = [text |-> Some(text), image |-> None]
    /\ event' = NoEvent
    /\ UNCHANGED <<input, output, commandState>>
    /\ UNCHANGED <<front, monitor, starting, app_handle, loops, savers,
                   store, sent>>

\* A copy of an image alone.
CopyImage(image) ==
    /\ clipboard # [text |-> None, image |-> Some(image)]
    /\ clipboard' = [text |-> None, image |-> Some(image)]
    /\ event' = NoEvent
    /\ UNCHANGED <<input, output, commandState>>
    /\ UNCHANGED <<front, monitor, starting, app_handle, loops, savers,
                   store, sent>>

\* A copy that offers both representations (a browser or office selection).
CopyRich(text, image) ==
    /\ clipboard # [text |-> Some(text), image |-> Some(image)]
    /\ clipboard' = [text |-> Some(text), image |-> Some(image)]
    /\ event' = NoEvent
    /\ UNCHANGED <<input, output, commandState>>
    /\ UNCHANGED <<front, monitor, starting, app_handle, loops, savers,
                   store, sent>>

\* The clipboard is emptied, or cannot be read: both reads return Err.
ClearClipboard ==
    /\ clipboard # [text |-> None, image |-> None]
    /\ clipboard' = [text |-> None, image |-> None]
    /\ event' = NoEvent
    /\ UNCHANGED <<input, output, commandState>>
    /\ UNCHANGED <<front, monitor, starting, app_handle, loops, savers,
                   store, sent>>

SwitchApp(app) ==
    /\ app # front
    /\ front' = app
    /\ event' = NoEvent
    /\ UNCHANGED <<input, output, commandState>>
    /\ UNCHANGED <<clipboard, monitor, starting, app_handle, loops, savers,
                   store, sent>>

\* lib.rs:227-228 setup -> AppState::set_app_handle (state.rs:57-63).
SetAppHandle ==
    /\ ~app_handle
    /\ Free("app_handle")
    /\ app_handle' = TRUE
    /\ event' = NoEvent
    /\ UNCHANGED <<input, output, commandState>>
    /\ UNCHANGED <<clipboard, front, monitor, starting, loops, savers,
                   store, sent>>

(***************************************************************************)
(* ChangeDetector: ClipboardMonitor::check_clipboard as a function of what *)
(* the tick reads.                                                         *)
(***************************************************************************)
\* A detector without suppression: every snapshot read is sent.
NoSuppression(last_hash, hash) ==
    [should_send |-> TRUE,
     last_hash |-> Some(hash)]

\* A detector that compares with the remembered hash and leaves it as it is.
NoMemory(last_hash, hash) ==
    [should_send |-> last_hash # Some(hash),
     last_hash |-> last_hash]

\* monitor.rs:138-148 and 243-253: compare with the remembered hash and
\* remember the new one.
Novelty(last_hash, hash) ==
    [should_send |-> last_hash # Some(hash),
     last_hash |-> Some(hash)]

\* monitor.rs:152-161 and 257-266: the exclusion veto.
Excluded(app_info) ==
    /\ app_info # None
    /\ Unwrap(app_info).bundle_id # None
    /\ is_app_excluded(Unwrap(Unwrap(app_info).bundle_id))

\* monitor.rs:163-170: the size veto, inside `if let Some(bundle_id)`.
TextTooLarge(app_info, trimmed_text) ==
    /\ app_info # None
    /\ Unwrap(app_info).bundle_id # None
    /\ ~is_text_size_valid(trimmed_text)

\* monitor.rs:175-197.
TextDraft(uuid, now, trimmed_text, hash, app_info, detected) ==
    ClipboardEntry(uuid, now, "text", Some(trimmed_text), hash, app_info, None,
                   Some(detected.subtype), detected.metadata)

\* monitor.rs:289-307 and 331-349.
ImageDraft(uuid, now, image, hash, app_info) ==
    ClipboardEntry(uuid, now, "image", Some(ImagePath(uuid)), hash, app_info,
                   Some(ImagePath(uuid)), None,
                   Some([width |-> image.width, height |-> image.height,
                         format |-> "png"]))

TickResult(last_hash, draft, outcome) ==
    [last_hash |-> last_hash, draft |-> draft, outcome |-> outcome]

\* monitor.rs:219-367: the image branch.
check_image(last_hash, image_result, app_info, ingest, uuid, now, nothing) ==
    IF image_result = None
    THEN TickResult(last_hash, None, nothing)
    ELSE LET image == Unwrap(image_result)
             hash == calculate_hash(image.bytes)
             nov == Novelty(last_hash, hash)
         IN  IF ~nov.should_send
             THEN TickResult(nov.last_hash, None, "suppressed")
             ELSE IF Excluded(app_info)
             THEN TickResult(nov.last_hash, None, "excluded")
             ELSE IF ingest = "failed"
             THEN TickResult(nov.last_hash, None, "ingest_failed")
             ELSE TickResult(nov.last_hash,
                             Some(ImageDraft(uuid, now, image, hash, app_info)),
                             "dispatched")

\* A detector that ingests the image whatever the text branch would do.
image_first(last_hash, text_result, image_result, app_info, ingest, uuid, now, trace_enabled) ==
    check_image(last_hash, image_result, app_info, ingest, uuid, now,
                "no_data")

\* monitor.rs:101-368. A panic of ContentDetector::detect (monitor.rs:175)
\* unwinds out of check_clipboard after the hash has been remembered.
check_clipboard(last_hash, text_result, image_result, app_info, ingest, uuid, now, trace_enabled) ==
    IF text_result # None /\ Trim(Unwrap(text_result)) # ""
    THEN LET trimmed_text == Trim(Unwrap(text_result))
             hash == calculate_hash(trimmed_text)
             nov == Novelty(last_hash, hash)
         IN  IF IsBase64Image(trimmed_text)
             THEN TickResult(last_hash, None, "skipped")
             ELSE IF ~nov.should_send
             THEN check_image(nov.last_hash, image_result, app_info, ingest,
                              uuid, now, "suppressed")
             ELSE IF Excluded(app_info)
             THEN TickResult(nov.last_hash, None, "excluded")
             ELSE IF TextTooLarge(app_info, trimmed_text)
             THEN TickResult(nov.last_hash, None, "too_large")
             ELSE IF ContentDetect(trimmed_text, trace_enabled) = Panicked
             THEN TickResult(nov.last_hash, None, "panicked")
             ELSE TickResult(nov.last_hash,
                             Some(TextDraft(uuid, now, trimmed_text, hash,
                                            app_info,
                                            ContentDetect(trimmed_text,
                                                          trace_enabled))),
                             "dispatched")
    ELSE check_image(last_hash, image_result, app_info, ingest, uuid, now,
                     "no_data")

\* broadcast::Sender::send: every subscribed receiver gets the value.
Broadcast(receivers, entry) ==
    [s \in DOMAIN receivers |->
        [receivers[s] EXCEPT !.rx = Append(@, entry)]]

(***************************************************************************)
(* AppState::start_monitoring / stop_monitoring.                           *)
(***************************************************************************)
NewLoop == [pc |-> "iter", last_hash |-> None]
NewSaver ==
    [pc |-> "recv", rx |-> <<>>, entry |-> None, existing |-> None,
     emit |-> None]

\* state.rs:65-76: monitor is None: ClipboardMonitor::new and
\* monitor.start_monitoring() (monitor.rs:51-59), which spawns the loop.
\* The command is served once setup (lib.rs:225-250) has run and the handle
\* is set.
StartMonitoring ==
    /\ app_handle
    /\ ~starting
    /\ ~monitor
    /\ Len(loops) < MaxStarts
    /\ loops' = Append(loops, NewLoop)
    /\ starting' = TRUE
    /\ event' = NoEvent
    /\ UNCHANGED <<input, output, commandState>>
    /\ UNCHANGED <<clipboard, front, monitor, app_handle, savers, store,
                   sent>>

\* state.rs:75-81 and 95-100: the slot is filled, then
\* start_database_save_task subscribes and spawns the save task.
StartSaveTask ==
    /\ starting
    /\ monitor' = TRUE
    /\ savers' = Append(savers, NewSaver)
    /\ starting' = FALSE
    /\ event' = NoEvent
    /\ UNCHANGED <<input, output, commandState>>
    /\ UNCHANGED <<clipboard, front, app_handle, loops, store, sent>>

\* state.rs:84-88.
StopMonitoring ==
    /\ ~starting
    /\ monitor
    /\ monitor' = FALSE
    /\ event' = NoEvent
    /\ UNCHANGED <<input, output, commandState>>
    /\ UNCHANGED <<clipboard, front, starting, app_handle, loops, savers,
                   store, sent>>

(***************************************************************************)
(* The polling loop spawned by ClipboardMonitor::start_monitoring.         *)
(***************************************************************************)
\* monitor.rs:87 and 96: the two sleeps of the loop, in milliseconds.
SelfAppSleepMs == 2000
PollSleepMs == 500

\* A loop that sleeps the same interval after every iteration.
SleepAlike(outcome) == PollSleepMs

\* monitor.rs:86-89 and 96: how long the task sleeps after an iteration.
SleepAfter(outcome) ==
    IF outcome = "self_app" THEN SelfAppSleepMs
    ELSE IF outcome = "panicked" THEN 0
    ELSE PollSleepMs

TickEvent(l, outcome, draft) ==
    [kind |-> "tick", loop |-> l, outcome |-> outcome, draft |-> draft,
     sleep_ms |-> SleepAfter(outcome)]

\* monitor.rs:60-89: top of the loop, the self-application check.
LoopIter(l) ==
    /\ loops[l].pc \in {"iter", "backoff"}
    /\ IF IsSelfApp(front)
       THEN /\ loops' = [loops EXCEPT ![l].pc = "backoff"]
            /\ event' = TickEvent(l, "self_app", None)
       ELSE /\ loops' = [loops EXCEPT ![l].pc = "check"]
            /\ event' = NoEvent
    /\ UNCHANGED <<input, output, commandState>>
    /\ UNCHANGED <<clipboard, front, monitor, starting, app_handle, savers,
                   store, sent>>

\* monitor.rs:91-97: whatever check_clipboard returned, its error is
\* logged, the task sleeps 500 ms and the loop iterates; a panic inside
\* check_clipboard ends the spawned task (monitor.rs:59).
AfterTick(outcome) == IF outcome = "panicked" THEN "panicked" ELSE "iter"

\* monitor.rs:91-96: check_clipboard, its error logged, then sleep(500).
CheckClipboard(l) ==
    /\ loops[l].pc = "check"
    /\ \E ingest \in IngestResults, trace_enabled \in BOOLEAN :
          LET r == check_clipboard(loops[l].last_hash, clipboard.text,
                                   clipboard.image, front, ingest,
                                   NextUuid, UtcNow, trace_enabled)
          IN  /\ r.draft # None => Len(sent) < MaxDrafts
              /\ loops' = [loops EXCEPT ![l] =
                              [pc |-> AfterTick(r.outcome),
                               last_hash |-> r.last_hash]]
              /\ IF r.draft # None
                 THEN /\ savers' = Broadcast(savers, Unwrap(r.draft))
                      /\ sent' = Append(sent, Unwrap(r.draft).content_hash)
                 ELSE UNCHANGED <<savers, sent>>
              /\ event' = TickEvent(l, r.outcome, r.draft)
    /\ UNCHANGED <<input, output, commandState>>
    /\ UNCHANGED <<clipboard, front, monitor, starting, app_handle, store>>

(***************************************************************************)
(* EntryAggregator: the task spawned by start_database_save_task.  Every   *)
(* sqlx query can fail (db_ok = FALSE).                                    *)
(***************************************************************************)
SaveEvent(s, draft, db, updated_entry) ==
    [kind |-> "save", saver |-> s, draft |-> draft, db |-> db,
     published |-> IF app_handle THEN Some(updated_entry) ELSE None]

\* state.rs:162-165: `app_handle.lock().await` before the emit. The task
\* goes on to recv when the lock is free and the entry emitted; it waits
\* for the lock, the entry in its hands, when a guard of it is alive.
Settled(rx, save_event) ==
    [pc |-> IF Free("app_handle") THEN "recv" ELSE "emit",
     rx |-> rx, entry |-> None, existing |-> None,
     emit |-> IF Free("app_handle") THEN None ELSE Some(save_event)]
Emitted(save_event) == IF Free("app_handle") THEN save_event ELSE NoEvent

\* "SELECT id, copy_count FROM clipboard_entries WHERE content_hash = ?"
SelectByHash(rows, content_hash) ==
    {[id |-> row.id, copy_count |-> row.copy_count] :
        row \in {r \in rows : r.content_hash = content_hash}}

\* "INSERT OR REPLACE"-like write: the columns not bound take their defaults.
ReplaceRow(rows, id, new_count, created_at) ==
    {IF row.id = id
     THEN [row EXCEPT !.copy_count = new_count, !.created_at = created_at,
                      !.is_favorite = FALSE]
     ELSE row : row \in rows}

\* "UPDATE clipboard_entries SET copy_count = ?, created_at = ? WHERE id = ?"
UpdateRow(rows, id, new_count, created_at) ==
    {IF row.id = id
     THEN [row EXCEPT !.copy_count = new_count, !.created_at = created_at]
     ELSE row : row \in rows}

\* "INSERT INTO clipboard_entries (...) VALUES (...)" with copy_count bound
\* to 1; id is the PRIMARY KEY.
InsertRow(rows, entry) == rows \cup {[entry EXCEPT !.copy_count = 1]}
PrimaryKeyFree(rows, id) == \A row \in rows : row.id # id

\* state.rs:101-112 and 159-165: recv, the lookup by content_hash, and the
\* Err(e) arm, which logs and goes on to emit.
Recv(s) ==
    /\ savers[s].pc = "recv"
    /\ savers[s].rx # <<>>
    /\ LET entry == Head(savers[s].rx)
           found == SelectByHash(store, entry.content_hash)
       IN  /\ \/ /\ found = {}
                 /\ savers' = [savers EXCEPT ![s] =
                        [pc |-> "insert", rx |-> Tail(savers[s].rx),
                         entry |-> Some(entry), existing |-> None,
                         emit |-> None]]
                 /\ event' = NoEvent
              \/ \E row \in found :
                    /\ savers' = [savers EXCEPT ![s] =
                           [pc |-> "update", rx |-> Tail(savers[s].rx),
                            entry |-> Some(entry), existing |-> Some(row),
                            emit |-> None]]
                    /\ event' = NoEvent
              \/ LET save_event ==
                         SaveEvent(s, entry, "lookup_failed", entry)
                 IN  /\ savers' = [savers EXCEPT ![s] =
                            Settled(Tail(savers[s].rx), save_event)]
                     /\ event' = Emitted(save_event)
    /\ UNCHANGED <<input, output, commandState>>
    /\ UNCHANGED <<clipboard, front, monitor, starting, app_handle, loops,
                   store, sent>>

\* state.rs:113-131 and 162-165: the Ok(Some(row)) arm, then the emit.
Update(s) ==
    /\ savers[s].pc = "update"
    /\ LET entry == Unwrap(savers[s].entry)
           id == Unwrap(savers[s].existing).id
           new_count == Unwrap(savers[s].existing).copy_count + 1
           updated_entry == [entry EXCEPT !.id = id, !.copy_count = new_count]
       IN  \E db_ok \in BOOLEAN :
              LET save_event ==
                      SaveEvent(s, entry,
                                IF db_ok THEN "ok" ELSE "write_failed",
                                updated_entry)
              IN  /\ store' = IF db_ok
                              THEN UpdateRow(store, id, new_count,
                                             entry.created_at)
                              ELSE store
                  /\ event' = Emitted(save_event)
                  /\ savers' = [savers EXCEPT ![s] =
                                   Settled(savers[s].rx, save_event)]
    /\ UNCHANGED <<input, output, commandState>>
    /\ UNCHANGED <<clipboard, front, monitor, starting, app_handle, loops,
                   sent>>

\* state.rs:132-158 and 162-165: the Ok(None) arm, then the emit.
Insert(s) ==
    /\ savers[s].pc = "insert"
    /\ LET entry == Unwrap(savers[s].entry)
           updated_entry == [entry EXCEPT !.copy_count = 1]
       IN  \E db_ok \in BOOLEAN :
              LET written == db_ok /\ PrimaryKeyFree(store, entry.id)
                  save_event ==
                      SaveEvent(s, entry,
                                IF written THEN "ok" ELSE "write_failed",
                                updated_entry)
              IN  /\ store' = IF written THEN InsertRow(store, entry) ELSE store
                  /\ event' = Emitted(save_event)
                  /\ savers' = [savers EXCEPT ![s] =
                                   Settled(savers[s].rx, save_event)]
    /\ UNCHANGED <<input, output, commandState>>
    /\ UNCHANGED <<clipboard, front, monitor, starting, app_handle, loops,
                   sent>>

\* state.rs:162-165: the lock of app_handle is acquired, the entry emitted
\* and the guard dropped.
Emit(s) ==
    /\ savers[s].pc = "emit"
    /\ Free("app_handle")
    /\ event' = Unwrap(savers[s].emit)
    /\ savers' = [savers EXCEPT ![s].pc = "recv", ![s].emit = None]
    /\ UNCHANGED <<input, output, commandState>>
    /\ UNCHANGED <<clipboard, front, monitor, starting, app_handle, loops,
                   store, sent>>

(***************************************************************************)
(* Commands on the store.                                                  *)
(***************************************************************************)
\* The statement without its WHERE clause.
ToggleEveryRow(rows, id) ==
    {[row EXCEPT !.is_favorite = ~row.is_favorite] : row \in rows}

\* "UPDATE clipboard_entries SET is_favorite = NOT is_favorite WHERE id = ?"
ToggleRow(rows, id) ==
    {IF row.id = id
     THEN [row EXCEPT !.is_favorite = ~row.is_favorite]
     ELSE row : row \in rows}

\* state.rs:204-211.
ToggleFavorite(id) ==
    /\ \E row \in store : row.id = id
    /\ store' = ToggleRow(store, id)
    /\ event' = NoEvent
    /\ UNCHANGED <<input, output, commandState>>
    /\ UNCHANGED <<clipboard, front, monitor, starting, app_handle, loops,
                   savers, sent>>

\* state.rs:213-220 "DELETE FROM clipboard_entries WHERE id = ?"
DeleteEntry(id) ==
    /\ \E row \in store : row.id = id
    /\ store' = {row \in store : row.id # id}
    /\ event' = NoEvent
    /\ UNCHANGED <<input, output, commandState>>
    /\ UNCHANGED <<clipboard, front, monitor, starting, app_handle, loops,
                   savers, sent>>

\* state.rs:222-228 "DELETE FROM clipboard_entries"
ClearHistory ==
    /\ store # {}
    /\ store' = {}
    /\ event' = NoEvent
    /\ UNCHANGED <<input, output, commandState>>
    /\ UNCHANGED <<clipboard, front, monitor, starting, app_handle, loops,
                   savers, sent>>

(***************************************************************************)
(* Settings and cleanup (state.rs:507-516 and 643-746).                    *)
(***************************************************************************)
\* state.rs:512-516 update_config.
UpdateConfig(new_config) ==
    /\ new_config # config
    /\ config' = new_config
    /\ event' = NoEvent
    /\ UNCHANGED <<clipboard, front, monitor, starting, app_handle, loops,
                   savers, store, sent, input, output, skip_next_change,
                   shortcutState>>

\* state.rs:668-682: now - days * 24 * 60 * 60 * 1000, None for Never.
Cutoff(expiry, now) ==
    IF as_days(expiry) = None THEN None
    ELSE Some(now - Unwrap(as_days(expiry)) * DayMs)

\* state.rs:685-699: "SELECT id, file_path FROM clipboard_entries WHERE
\* content_type LIKE '<type>%' AND created_at < ?", nothing when cutoff is None.
Expired(rows, content_type, cutoff) ==
    IF cutoff = None THEN {}
    ELSE {row \in rows : /\ row.content_type = content_type
                         /\ row.created_at < Unwrap(cutoff)}

\* commands.rs:580 -> state.rs:663-746 cleanup_expired_entries. The rows
\* selected are deleted one by one, the texts first; a DELETE that fails ends
\* the cleanup with the rows deleted so far gone.
CleanupExpiredEntries ==
    /\ LET now == UtcNow
           expired_text_entries ==
               Expired(store, "text", Cutoff(config.text.expiry, now))
           expired_image_entries ==
               Expired(store, "image", Cutoff(config.image.expiry, now))
       IN  \E removed \in SUBSET (expired_text_entries
                                     \cup expired_image_entries) :
              /\ (removed \cap expired_image_entries # {}) =>
                     expired_text_entries \subseteq removed
              /\ store' = store \ removed
              /\ event' = [kind |-> "cleanup",
                           entries_removed |-> Cardinality(removed)]
    /\ UNCHANGED <<clipboard, front, monitor, starting, app_handle, loops,
                   savers, sent, input, output, config, skip_next_change,
                   shortcutState>>

(***************************************************************************)
(* copy_converted_image (commands.rs:439-477).                             *)
(***************************************************************************)
\* The image that the front end converted and hands over as a data URI.
ConvertedImage == [width |-> 2, height |-> 2, bytes |-> "converted"]

\* commands.rs:439-477, once the data URI is decoded and the temporary file
\* written: set_skip_next_clipboard_change(true) (state.rs:323-326), then
\* copy_image_to_clipboard (state.rs:289-321), which puts the image on the
\* clipboard or fails.
CopyConvertedImage ==
    /\ skip_next_change' = TRUE
    /\ \E copied \in BOOLEAN :
          clipboard' = IF copied
                       THEN [text |-> None, image |-> Some(ConvertedImage)]
                       ELSE clipboard
    /\ event' = NoEvent
    /\ UNCHANGED <<front, monitor, starting, app_handle, loops, savers,
                   store, sent, input, output, config, shortcutState>>

(***************************************************************************)
(* Global shortcut (state.rs:519-568).                                     *)
(***************************************************************************)
\* The shortcuts the front end asks for.
Shortcuts == {"CmdOrCtrl+Shift+V", "Alt+Space"}

\* The call of unregister_global_shortcut at one of its awaits, with the
\* MutexGuards alive there, and its result once it has returned.
Call(pc, holds, result) == [pc |-> pc, holds |-> holds, result |-> result]

\* commands.rs:542-551 -> state.rs:519-550 register_global_shortcut. The
\* guard of current_shortcut taken at line 530 is dropped at the end of the
\* `if let` statement and the lock taken again at line 546. Unregistering
\* the current shortcut or registering the new one may fail, which returns
\* Err before line 546.
RegisterGlobalShortcut(shortcut) ==
    /\ Free("current_shortcut")
    /\ \E registered \in BOOLEAN :
          current_shortcut' = IF registered THEN Some(shortcut)
                              ELSE current_shortcut
    /\ event' = [kind |-> "register", shortcut |-> shortcut]
    /\ UNCHANGED <<clipboard, front, monitor, starting, app_handle, loops,
                   savers, store, sent, input, output, config,
                   skip_next_change, unregistering>>

\* commands.rs:554-559 -> state.rs:552-568 unregister_global_shortcut, one
\* step for each lock().await. The guards of the two `if let` scrutinees
\* (lines 553 and 554) are temporaries that live to the end of their `if
\* let` statements, so both are alive at the lock().await of line 563.
UnregisterGlobalShortcut ==
    /\ \/ \* line 553: the lock of app_handle
          /\ unregistering.pc = "idle"
          /\ Free("app_handle")
          /\ unregistering' =
                IF app_handle
                THEN Call("app_handle_locked", {"app_handle"}, "none")
                ELSE Call("returned", {}, "ok")
          /\ UNCHANGED current_shortcut
       \/ \* lines 554-561: the lock of current_shortcut, the unregistration
          /\ unregistering.pc = "app_handle_locked"
          /\ Free("current_shortcut")
          /\ \E unregistered \in BOOLEAN :
                unregistering' =
                   IF current_shortcut = None
                   THEN Call("returned", {}, "ok")
                   ELSE IF unregistered
                   THEN Call("relock", {"app_handle", "current_shortcut"},
                             "none")
                   ELSE Call("returned", {}, "err")
          /\ UNCHANGED current_shortcut
       \/ \* lines 563-567: the second lock of current_shortcut
          /\ unregistering.pc = "relock"
          /\ Free("current_shortcut")
          /\ current_shortcut' = None
          /\ unregistering' = Call("returned", {}, "ok")
       \/ \* the front end has its answer, and may call again
          /\ unregistering.pc = "returned"
          /\ unregistering' = NoCall
          /\ UNCHANGED current_shortcut
    /\ event' = [kind |-> "unregister", pc |-> unregistering'.pc]
    /\ UNCHANGED <<clipboard, front, monitor, starting, app_handle, loops,
                   savers, store, sent, input, output, config,
                   skip_next_change>>

(***************************************************************************)
(* Specification.                                                          *)
(***************************************************************************)
Next ==
    \/ \E text \in Texts : CopyText(text)
    \/ SetAppHandle
    \/ StartMonitoring
    \/ StartSaveTask
    \/ StopMonitoring
    \/ \E l \in DOMAIN loops : LoopIter(l)
    \/ \E l \in DOMAIN loops : CheckClipboard(l)
    \/ \E s \in DOMAIN savers : Recv(s)
    \/ \E s \in DOMAIN savers : Update(s)
    \/ \E s \in DOMAIN savers : Insert(s)
    \/ \E id \in 1..MaxDrafts : ToggleFavorite(id)
    \/ \E id \in 1..MaxDrafts : DeleteEntry(id)
    \/ ClearHistory

Spec == Init /\ [][Next]_vars

\* One monitoring session (start_monitoring, never stopped) with every kind
\* of clipboard content, the save task and the commands on the store.
SessionNext ==
    \/ SetAppHandle
    \/ \E text \in Texts : CopyText(text)
    \/ \E image \in Images : CopyImage(image)
    \/ \E text \in Texts, image \in Images : CopyRich(text, image)
    \/ ClearClipboard
    \/ StartMonitoring
    \/ StartSaveTask
    \/ \E l \in DOMAIN loops : LoopIter(l)
    \/ \E l \in DOMAIN loops : CheckClipboard(l)
    \/ \E s \in DOMAIN savers : Recv(s)
    \/ \E s \in DOMAIN savers : Update(s)
    \/ \E s \in DOMAIN savers : Insert(s)
    \/ \E id \in 1..MaxDrafts : ToggleFavorite(id)
    \/ \E id \in 1..MaxDrafts : DeleteEntry(id)
    \/ ClearHistory

SessionSpec == Init /\ [][SessionNext]_vars

\* The detector of one monitoring session, in its whole environment.  The
\* save task is never scheduled, so the drafts stay in the channel.
DetectorNext ==
    \/ SetAppHandle
    \/ \E text \in Texts : CopyText(text)
    \/ \E image \in Images : CopyImage(image)
    \/ \E text \in Texts, image \in Images : CopyRich(text, image)
    \/ ClearClipboard
    \/ \E app \in FrontApps : SwitchApp(app)
    \/ StartMonitoring
    \/ StartSaveTask
    \/ \E l \in DOMAIN loops : LoopIter(l)
    \/ \E l \in DOMAIN loops : CheckClipboard(l)

DetectorSpec == Init /\ [][DetectorNext]_vars

\* The detector of one monitoring session with the clipboard contents and
\* the frontmost applications that its vetoes are about.
PolicyNext ==
    \/ SetAppHandle
    \/ \E text \in PolicyTexts : CopyText(text)
    \/ \E image \in Images : CopyImage(image)
    \/ \E text \in PolicyTexts, image \in Images : CopyRich(text, image)
    \/ ClearClipboard
    \/ \E app \in PolicyApps : SwitchApp(app)
    \/ StartMonitoring
    \/ StartSaveTask
    \/ \E l \in DOMAIN loops : LoopIter(l)
    \/ \E l \in DOMAIN loops : CheckClipboard(l)

PolicySpec == Init /\ [][PolicyNext]_vars

\* The detector alone, on texts that the classifier's trace line slices.
UnicodeNext ==
    \/ SetAppHandle
    \/ \E text \in UnicodeTexts : CopyText(text)
    \/ \E image \in Images : CopyImage(image)
    \/ \E text \in UnicodeTexts, image \in Images : CopyRich(text, image)
    \/ ClearClipboard
    \/ \E app \in FrontApps : SwitchApp(app)
    \/ StartMonitoring
    \/ StartSaveTask
    \/ \E l \in DOMAIN loops : LoopIter(l)
    \/ \E l \in DOMAIN loops : CheckClipboard(l)

UnicodeSpec == Init /\ [][UnicodeNext]_vars

\* One monitoring session with the save task, the commands on the store,
\* the settings and the cleanup.
RetentionNext ==
    \/ SetAppHandle
    \/ \E text \in Texts : CopyText(text)
    \/ \E image \in Images : CopyImage(image)
    \/ StartMonitoring
    \/ StartSaveTask
    \/ \E l \in DOMAIN loops : LoopIter(l)
    \/ \E l \in DOMAIN loops : CheckClipboard(l)
    \/ \E s \in DOMAIN savers : Recv(s)
    \/ \E s \in DOMAIN savers : Update(s)
    \/ \E s \in DOMAIN savers : Insert(s)
    \/ \E id \in 1..MaxDrafts : ToggleFavorite(id)
    \/ \E id \in 1..MaxDrafts : DeleteEntry(id)
    \/ ClearHistory
    \/ \E text_expiry \in Expiries, image_expiry \in Expiries :
          UpdateConfig(AppConfig(text_expiry, image_expiry))
    \/ CleanupExpiredEntries

RetentionSpec == Init /\ [][RetentionNext]_vars

\* The detector of one monitoring session, the user copying texts and
\* images and the front end copying converted images.
ConvertedApps == {Some(EditorApp), Some(SelfApp)}
ConvertedNext ==
    \/ SetAppHandle
    \/ \E text \in Texts : CopyText(text)
    \/ \E image \in Images : CopyImage(image)
    \/ \E app \in ConvertedApps : SwitchApp(app)
    \/ StartMonitoring
    \/ StartSaveTask
    \/ \E l \in DOMAIN loops : LoopIter(l)
    \/ \E l \in DOMAIN loops : CheckClipboard(l)
    \/ CopyConvertedImage

ConvertedSpec == Init /\ [][ConvertedNext]_vars

\* The one copy after which the clipboard is left alone.
CopyOnce ==
    /\ clipboard = [text |-> None, image |-> None]
    /\ \/ \E text \in Texts : CopyText(text)
       \/ \E image \in Images : CopyImage(image)
       \/ \E text \in Texts, image \in Images : CopyRich(text, image)

\* One monitoring session and its save task over a clipboard that is
\* written once and then does not change.
StillNext ==
    \/ SetAppHandle
    \/ CopyOnce
    \/ \E app \in FrontApps : SwitchApp(app)
    \/ StartMonitoring
    \/ StartSaveTask
    \/ \E l \in DOMAIN loops : LoopIter(l)
    \/ \E l \in DOMAIN loops : CheckClipboard(l)
    \/ \E s \in DOMAIN savers : Recv(s)
    \/ \E s \in DOMAIN savers : Update(s)
    \/ \E s \in DOMAIN savers : Insert(s)

StillSpec == Init /\ [][StillNext]_vars

\* One monitoring session with the global shortcut registered and
\* unregistered by the front end while the save task publishes entries.
ShortcutNext ==
    \/ SetAppHandle
    \/ \E text \in Texts : CopyText(text)
    \/ StartMonitoring
    \/ StartSaveTask
    \/ \E l \in DOMAIN loops : LoopIter(l)
    \/ \E l \in DOMAIN loops : CheckClipboard(l)
    \/ \E s \in DOMAIN savers : Recv(s)
    \/ \E s \in DOMAIN savers : Update(s)
    \/ \E s \in DOMAIN savers : Insert(s)
    \/ \E s \in DOMAIN savers : Emit(s)
    \/ \E shortcut \in Shortcuts : RegisterGlobalShortcut(shortcut)
    \/ UnregisterGlobalShortcut

ShortcutSpec == Init /\ [][ShortcutNext]_vars

(***************************************************************************)
(* The classifier applied to one text.                                     *)
(***************************************************************************)
\* Integers around the bounds of the two timestamp ranges, as I64(hi, lo).
StampHighs == {-1, 0, 945, 946, 947, 4102, 4103, 946684, 946685, 7258118,
               7258119}
StampLows == {0, 399999, 400000, 444799, 444800, 684799, 684800, 799999,
              800000, 999999}
Stamps ==
    {IntStamp(I64(hi, lo)) : hi \in StampHighs, lo \in StampLows}
        \cup {IsoStamp("2024-01-15T10:30:00Z"), DateStamp("2024-01-15")}

\* The texts given to detect. A text that parses as an integer or matches a
\* date pattern is made of ASCII digits and separators: of the other rules
\* only the Base64 one may hold on it, and byte 100 is a char boundary.
ClassifyTexts ==
    {TextProfile(rules, NoStamp, split) :
        rules \in SUBSET RuleNames, split \in BOOLEAN}
    \cup {TextProfile(rules, stamp, FALSE) :
            rules \in SUBSET {"base64"}, stamp \in Stamps}

TextInput(text) == [kind |-> "text", text |-> text]

\* The texts given to detect_base64: up to MaxStripped bytes without the
\* whitespace, which a text of more than 40 bytes may have (5% of it).
MaxStripped == 48
Base64Texts ==
    {Base64Text(gate, whitespace, stripped, padding, well_formed) :
        gate \in BOOLEAN, whitespace \in {0, 2}, stripped \in 1..MaxStripped,
        padding \in 0..4, well_formed \in BOOLEAN}
Base64Input(text) == [kind |-> "base64", text |-> text]
Base64Output(metadata) == [kind |-> "base64", metadata |-> metadata]

ClassifyInit ==
    /\ Constructed
    /\ input \in {TextInput(text) : text \in ClassifyTexts}
                 \cup {Base64Input(text) :
                          text \in {t \in Base64Texts :
                                       /\ t.padding <= t.stripped
                                       /\ t.whitespace > 0 =>
                                             t.stripped + t.whitespace > 40}}
    /\ output = NoOutput

\* monitor.rs:175 ContentDetector::detect(&trimmed_text), under either
\* setting of the log level.
Classify ==
    /\ input.kind = "text"
    /\ output = NoOutput
    /\ \E trace_enabled \in BOOLEAN :
          output' = detect(input.text, trace_enabled)
    /\ UNCHANGED <<clipboard, front, monitor, starting, app_handle, loops,
                   savers, store, sent, event, input, commandState>>

\* content_detector.rs:147 Self::detect_base64(trimmed).
DetectBase64 ==
    /\ input.kind = "base64"
    /\ output = NoOutput
    /\ output' = Base64Output(detect_base64(input.text))
    /\ UNCHANGED <<clipboard, front, monitor, starting, app_handle, loops,
                   savers, store, sent, event, input, commandState>>

ClassifyNext == Classify \/ DetectBase64

ClassifySpec == ClassifyInit /\ [][ClassifyNext]_vars

(***************************************************************************)
(* The image ingestion applied to one clipboard image or one buffer.       *)
(***************************************************************************)
\* The shapes of the buffers: the common resolutions, the same turned by a
\* quarter, and a few that are in no table.
IngestShapes ==
    {common_dimensions[i] : i \in DOMAIN common_dimensions}
    \cup {<<common_dimensions[i][2], common_dimensions[i][1]>> :
             i \in DOMAIN common_dimensions}
    \cup {<<2, 2>>, <<4, 5>>, <<1, 17>>, <<7, 3>>, <<200, 100>>, <<333, 77>>,
          <<1000, 1000>>, <<1170, 2532>>}

\* arboard::ImageData: width, height and width * height * 4 bytes of RGBA.
ImageInput(width, height) ==
    [kind |-> "image", width |-> width, height |-> height,
     len |-> width * height * 4, container |-> "none"]
\* A buffer given to process_image without dimensions: headerless, or a
\* file of a container format.
BufferInput(len) == [kind |-> "buffer", len |-> len, container |-> "none"]
FileInput(len, container) ==
    [kind |-> "buffer", len |-> len, container |-> container]

\* The lengths of the files: of a table resolution (100 x 100 pixels), a
\* multiple of 4 that is of no table (250 pixels), an odd one and a short one.
FileLens == {40000, 1000, 1001, 70}

\* A buffer of count pixels (blue, green, red, alpha), and two such runs
\* one after the other.
Run(count, alpha) ==
    [k \in 1..(4 * count) |->
        IF (k - 1) % 4 = 0 THEN 10
        ELSE IF (k - 1) % 4 = 1 THEN 20
        ELSE IF (k - 1) % 4 = 2 THEN 30
        ELSE alpha]
RunLens == {1, 2, 3, 50, 99, 100}
Alphas == {0, 128, 255}
Runs == {Run(count, alpha) : count \in RunLens, alpha \in Alphas}
PixelBuffers == Runs \cup {first \o second : first \in Runs, second \in Runs}
PixelsInput(rgba_data) == [kind |-> "pixels", rgba_data |-> rgba_data]
Converted(data, swapped) ==
    [kind |-> "converted", data |-> data, swapped |-> swapped]

\* A buffer known by its length alone, and what the inference returns for
\* it.
LengthInput(len) == [kind |-> "length", len |-> len]
Inferred(dimensions) == [kind |-> "inferred", dimensions |-> dimensions]

\* The lengths of the buffers of the inference: those of the shapes, short
\* and odd ones, 7 x 7 pixels, a prime number of pixels (101, 1000003),
\* 503 x 1009 and 211 x 3001 pixels (primes), and 7680 x 4320 pixels.
InferLens ==
    {shape[1] * shape[2] * 4 : shape \in IngestShapes}
    \cup (0..24) \cup {196, 404, 405, 406, 2030108, 2532844, 4000012,
                       4000013, 132710400}

IngestInit ==
    /\ Constructed
    /\ input \in {ImageInput(shape[1], shape[2]) : shape \in IngestShapes}
                 \cup {BufferInput(shape[1] * shape[2] * 4) :
                          shape \in IngestShapes}
                 \cup {BufferInput(len) : len \in {0, 15, 18}}
                 \cup {FileInput(len, container) :
                          len \in FileLens, container \in Containers}
                 \cup {PixelsInput(rgba_data) : rgba_data \in PixelBuffers}
                 \cup {LengthInput(len) : len \in InferLens}
    /\ output = NoOutput

\* The image draft with the dimensions written to its metadata and those
\* of the file at its file_path.
ImageEntry(width, height, stored) ==
    [kind |-> "entry", width |-> width, height |-> height,
     stored |-> <<stored.width, stored.height>>]

\* monitor.rs:270-361: process_image_with_dimensions, and process_image when
\* it returned Err. Each attempt may fail to write its file.
IngestImage ==
    /\ input.kind = "image"
    /\ output = NoOutput
    /\ \E saved \in BOOLEAN, saved_again \in BOOLEAN, decodes \in BOOLEAN :
          LET image_info ==
                  process_image_with_dimensions(input, input.width,
                                                input.height, decodes, saved)
              fallback == process_image(input, decodes, saved_again)
          IN  output' =
                  IF image_info.kind = "saved"
                  THEN ImageEntry(image_info.width, image_info.height,
                                  image_info)
                  ELSE IF fallback.kind = "saved"
                  THEN ImageEntry(input.width, input.height, fallback)
                  ELSE Failed
    /\ UNCHANGED <<clipboard, front, monitor, starting, app_handle, loops,
                   savers, store, sent, event, input, commandState>>

\* processor.rs:38 process_image(image_data).
IngestBuffer ==
    /\ input.kind = "buffer"
    /\ output = NoOutput
    /\ \E saved \in BOOLEAN, decodes \in BOOLEAN :
          output' = process_image(input, decodes, saved)
    /\ UNCHANGED <<clipboard, front, monitor, starting, app_handle, loops,
                   savers, store, sent, event, input, commandState>>

\* processor.rs:161-185: the channel-order correction of
\* process_raw_rgba_data.
ConvertChannels ==
    /\ input.kind = "pixels"
    /\ output = NoOutput
    /\ output' = Converted(converted_data(input.rgba_data),
                           needs_bgra_conversion(input.rgba_data))
    /\ UNCHANGED <<clipboard, front, monitor, starting, app_handle, loops,
                   savers, store, sent, event, input, commandState>>

\* processor.rs:249 detect_raw_rgba_data(data).
InferDimensions ==
    /\ input.kind = "length"
    /\ output = NoOutput
    /\ output' = Inferred(detect_raw_rgba_data(input.len))
    /\ UNCHANGED <<clipboard, front, monitor, starting, app_handle, loops,
                   savers, store, sent, event, input, commandState>>

IngestNext ==
    IngestImage \/ IngestBuffer \/ ConvertChannels \/ InferDimensions

IngestSpec == IngestInit /\ [][IngestNext]_vars

(***************************************************************************)
(* Properties.                                                             *)
(***************************************************************************)

\* C1: the store never holds two rows with the same content_hash: after any
\* sequence of start_monitoring, stop_monitoring, dispatches and upserts,
\* there is exactly one Entry per content_hash.
C1_OneEntryPerHash ==
    \A r1 \in store, r2 \in store :
        r1.content_hash = r2.content_hash => r1 = r2

\* Number of drafts dispatched so far whose content_hash is hash.
Observed(hash) == Cardinality({i \in DOMAIN sent : sent[i] = hash})

\* C2: copy_count is 1 when the Entry is created, never decreases, grows by
\* exactly 1 per step, and never exceeds the number of times the hash has
\* been observed (dispatched by the detector).
C2_CopyCount ==
    /\ [](\A row \in store : row.copy_count <= Observed(row.content_hash))
    /\ [][\A new \in store' :
            IF \E old \in store : old.id = new.id
            THEN \A old \in store :
                    old.id = new.id =>
                        new.copy_count \in {old.copy_count, old.copy_count + 1}
            ELSE new.copy_count = 1]_vars

\* The text snapshot a tick hashes: a readable, non-empty text that is not a
\* data:image URI.
TextSnapshot ==
    /\ clipboard.text # None
    /\ Trim(Unwrap(clipboard.text)) # ""
    /\ ~IsBase64Image(Trim(Unwrap(clipboard.text)))
TextHash == calculate_hash(Trim(Unwrap(clipboard.text)))
ImageHash == calculate_hash(Unwrap(clipboard.image).bytes)

\* The step is the check_clipboard call of loop l.
IsCheck(l) ==
    /\ l \in DOMAIN loops
    /\ loops[l].pc = "check"
    /\ loops'[l] # loops[l]

\* C3: a tick dispatches a draft with hash h only if h differs from the
\* remembered last hash, and h becomes the remembered hash; a snapshot equal
\* to the remembered hash (seen on the previous tick, nothing in between) is
\* not dispatched again; a snapshot that differs from the remembered hash
\* (another one was seen in between) is remembered and, unless the exclusion
\* or size policy or a failed ingestion vetoes it, dispatched.
C3_Novelty ==
    [][\A l \in DOMAIN loops :
          IsCheck(l) =>
             LET last == loops[l].last_hash
                 last2 == loops'[l].last_hash
                 draft == event'.draft
             IN  /\ draft # None =>
                       /\ last # Some(Unwrap(draft).content_hash)
                       /\ last2 = Some(Unwrap(draft).content_hash)
                       /\ sent' = Append(sent, Unwrap(draft).content_hash)
                 /\ draft = None => sent' = sent
                 /\ (TextSnapshot /\ clipboard.image = None) =>
                       IF last = Some(TextHash)
                       THEN draft = None /\ last2 = last
                       ELSE /\ last2 = Some(TextHash)
                            /\ IF \/ Excluded(front)
                                  \/ TextTooLarge(front,
                                                  Trim(Unwrap(clipboard.text)))
                               THEN draft = None
                               ELSE /\ draft # None
                                    /\ Unwrap(draft).content_hash = TextHash
                 /\ (clipboard.text = None /\ clipboard.image # None) =>
                       IF last = Some(ImageHash)
                       THEN draft = None /\ last2 = last
                       ELSE /\ last2 = Some(ImageHash)
                            /\ IF Excluded(front)
                               THEN draft = None
                               ELSE \/ event'.outcome = "ingest_failed"
                                    \/ /\ draft # None
                                       /\ Unwrap(draft).content_hash = ImageHash
      ]_vars

\* C3 witness: one loop has dispatched a snapshot, then a different one, then
\* the first one again.
C3_Witness ==
    /\ Len(loops) = 1
    /\ \E i \in DOMAIN sent : \E j \in DOMAIN sent : \E k \in DOMAIN sent :
          i < j /\ j < k /\ sent[i] = sent[k] /\ sent[i] # sent[j]

\* The step is the UPDATE of save task s.
IsUpdate(s) ==
    /\ s \in DOMAIN savers
    /\ savers[s].pc = "update"
    /\ savers'[s].pc = "recv"

\* C4: after the upsert of a draft whose content_hash is already stored, the
\* row's created_at is that draft's timestamp, and the stored created_at of
\* an Entry, being the time of the most recent occurrence, never goes back.
C4_MostRecent ==
    [][/\ \A s \in DOMAIN savers :
             (IsUpdate(s) /\ event'.db = "ok") =>
                \A new \in store' :
                   new.id = Unwrap(savers[s].existing).id =>
                      new.created_at = Unwrap(savers[s].entry).created_at
       /\ \A old \in store : \A new \in store' :
             old.id = new.id => new.created_at >= old.created_at
      ]_vars

\* The columns an upsert of a stored hash must leave alone.
FrameFields ==
    {"id", "content_hash", "content_type", "content_data", "source_app",
     "app_bundle_id", "file_path", "is_favorite", "content_subtype",
     "metadata"}
SameFrame(old, new) == \A f \in FrameFields : old[f] = new[f]

\* C5: the UPDATE of a stored hash changes no column of any row other than
\* copy_count and created_at of the existing row, adds and removes no row,
\* writes the new count and timestamp, and the Entry it returns carries the
\* existing id and the new copy_count.
C5_UpdateFrame ==
    [][\A s \in DOMAIN savers :
          IsUpdate(s) =>
             LET existing == Unwrap(savers[s].existing)
                 entry == Unwrap(savers[s].entry)
             IN  /\ \A old \in store : \E new \in store' :
                       /\ SameFrame(old, new)
                       /\ old.id # existing.id => new = old
                 /\ \A new \in store' : \E old \in store : SameFrame(old, new)
                 /\ event'.db = "ok" =>
                       \A new \in store' :
                          new.id = existing.id =>
                             /\ new.copy_count = existing.copy_count + 1
                             /\ new.created_at = entry.created_at
                 /\ event'.kind = "save"
                 /\ event'.published # None
                 /\ Unwrap(event'.published).id = existing.id
                 /\ Unwrap(event'.published).copy_count = existing.copy_count + 1
      ]_vars

\* C5 witness: a favourite row has just been updated by a repeat and the
\* Entry with its id and the new count published.
C5_Witness ==
    /\ event.kind = "save"
    /\ event.db = "ok"
    /\ event.published # None
    /\ Unwrap(event.published).copy_count >= 2
    /\ \E row \in store :
          /\ row.id = Unwrap(event.published).id
          /\ row.id # event.draft.id
          /\ row.copy_count = Unwrap(event.published).copy_count
          /\ row.is_favorite

\* C6: an Entry published after an upsert carries the id and copy_count of
\* the row stored for its content_hash at that moment, and a change whose
\* lookup or write failed is dropped: nothing is published for it.
C6_PublishedIsStored ==
    event.kind = "save" =>
       /\ event.db # "ok" => event.published = None
       /\ event.published # None =>
             \E row \in store :
                /\ row.content_hash = Unwrap(event.published).content_hash
                /\ row.id = Unwrap(event.published).id
                /\ row.copy_count = Unwrap(event.published).copy_count

\* C7: while monitoring is stopped (the monitor slot is empty and no
\* start_monitoring is under way) no polling loop takes a step and no draft
\* is dispatched.
C7_StoppedIsHalted ==
    [][(~monitor /\ ~starting) =>
          /\ \A l \in DOMAIN loops : loops'[l] = loops[l]
          /\ sent' = sent
      ]_vars

\* C8: at most one polling loop and at most one save task exist, and at most
\* one detection pass is under way.
C8_OneProducer ==
    /\ Len(loops) <= 1
    /\ Len(savers) <= 1
    /\ Cardinality({l \in DOMAIN loops : loops[l].pc = "check"}) <= 1

\* C9: a draft published on the channel is delivered to the save task: at
\* the moment of the dispatch it is in the queue of a subscribed receiver.
C9_Delivered ==
    (event.kind = "tick" /\ event.draft # None) =>
       \E s \in DOMAIN savers :
          \E i \in DOMAIN savers[s].rx : savers[s].rx[i] = Unwrap(event.draft)

\* A tick of the model that ends in an error: neither read of the clipboard
\* succeeded, or the image could not be ingested.
FailedOutcomes == {"no_data", "ingest_failed", "panicked"}
FailedTick(l) ==
    /\ event.kind = "tick"
    /\ event.loop = l
    /\ event.outcome \in FailedOutcomes

\* The tokio runtime runs a spawned task again once its sleep has elapsed.
LoopFairness ==
    \A l \in 1..MaxStarts :
       /\ WF_vars(l \in DOMAIN loops /\ LoopIter(l))
       /\ WF_vars(l \in DOMAIN loops /\ CheckClipboard(l))

DetectorLiveSpec == DetectorSpec /\ LoopFairness
UnicodeLiveSpec == UnicodeSpec /\ LoopFairness

\* C10: after a tick of a polling loop that ends in an error (a failed read,
\* a failed classification or ingestion), that loop begins another
\* iteration: it is never left halted.
C10_FailedTickContinues ==
    \A l \in 1..MaxStarts :
       [](FailedTick(l) =>
             <>(l \in DOMAIN loops /\ loops[l].pc \in {"check", "backoff"}))

\* The step is an iteration of loop l that found this application in front.
IsSelfSkip(l) ==
    /\ event'.kind = "tick"
    /\ event'.outcome = "self_app"
    /\ event'.loop = l

\* C11: an iteration that finds this application itself in front is skipped:
\* no check_clipboard begins (the clipboard is not read), no draft is
\* dispatched, last_hash is unchanged and the loop sleeps 4 times the normal
\* interval; and no check_clipboard begins from an iteration that found this
\* application in front.
C11_SelfAppSkip ==
    [][\A l \in DOMAIN loops :
          /\ IsSelfSkip(l) =>
                /\ IsSelfApp(front)
                /\ loops'[l].pc = "backoff"
                /\ loops'[l].last_hash = loops[l].last_hash
                /\ event'.draft = None
                /\ sent' = sent
                /\ savers' = savers
                /\ event'.sleep_ms = 4 * PollSleepMs
          /\ (loops[l].pc # "check" /\ loops'[l].pc = "check") =>
                ~IsSelfApp(front)
          /\ (loops[l].pc # "check" /\ loops'[l] # loops[l]
              /\ IsSelfApp(front)) => IsSelfSkip(l)
      ]_vars

\* C11 witness: a loop that remembers a hash has just skipped an iteration
\* while the clipboard holds a text it has not seen.
C11_Witness ==
    /\ event.kind = "tick"
    /\ event.outcome = "self_app"
    /\ loops[event.loop].pc = "backoff"
    /\ loops[event.loop].last_hash # None
    /\ TextSnapshot
    /\ loops[event.loop].last_hash # Some(TextHash)

\* The trimmed text on the clipboard is a data:image URI.
DataUriOnClipboard ==
    /\ clipboard.text # None
    /\ Trim(Unwrap(clipboard.text)) \in DataImageTexts

\* C12: a tick that reads a data:image;base64 URI as text dispatches nothing
\* and leaves last_hash as it was; no text draft ever carries such a URI.
C12_DataUriSkipped ==
    [][\A l \in DOMAIN loops :
          IsCheck(l) =>
             /\ DataUriOnClipboard =>
                   /\ event'.draft = None
                   /\ loops'[l].last_hash = loops[l].last_hash
                   /\ sent' = sent
                   /\ savers' = savers
             /\ \A t \in DataImageTexts :
                   /\ loops'[l].last_hash # Some(calculate_hash(t))
                   /\ event'.draft # None =>
                         /\ Unwrap(event'.draft).content_data # Some(t)
                         /\ Unwrap(event'.draft).content_hash # calculate_hash(t)
      ]_vars

\* C12 witness: a loop that remembers a hash has just skipped a clipboard
\* that offers a data:image URI as text together with an image.
C12_Witness ==
    /\ event.kind = "tick"
    /\ event.outcome = "skipped"
    /\ DataUriOnClipboard
    /\ clipboard.image # None
    /\ loops[event.loop].last_hash # None

\* The bundle ids of the legacy list and of the v2 list.
ExclusionList == excluded_apps \cup {e.bundle_id : e \in excluded_apps_v2}
FrontIsExcluded ==
    /\ front # None
    /\ Unwrap(front).bundle_id # None
    /\ Unwrap(Unwrap(front).bundle_id) \in ExclusionList

\* C13: a tick whose frontmost application has a bundle id in the legacy or
\* the v2 exclusion list dispatches no draft, text or image.
C13_ExcludedNeverDispatched ==
    [][\A l \in DOMAIN loops :
          (IsCheck(l) /\ FrontIsExcluded) =>
             /\ event'.draft = None
             /\ sent' = sent
             /\ savers' = savers
      ]_vars

\* C13 witness: a tick has vetoed a new snapshot because the application of
\* the legacy list is in front.
C13_Witness ==
    /\ event.kind = "tick"
    /\ event.outcome = "excluded"
    /\ front = Some(VaultApp)
    /\ sent # <<>>

\* C14: a text larger than the configured maximum is never dispatched,
\* whatever the frontmost application is.
C14_OversizedNeverDispatched ==
    \A i \in DOMAIN sent : sent[i] # calculate_hash(BigText)

\* The text branch of this tick would dispatch: a new text snapshot that no
\* policy vetoes.
TextDispatchDue(l) ==
    /\ TextSnapshot
    /\ loops[l].last_hash # Some(TextHash)
    /\ ~FrontIsExcluded
    /\ ~TextTooLarge(front, Trim(Unwrap(clipboard.text)))

\* C15: a tick dispatches at most one draft; when its text branch dispatches,
\* the draft is the text, the tick ends there and the image is not examined
\* (last_hash is the text's hash); an image draft comes only from a tick
\* whose text branch dispatched nothing.
C15_OneDraftPerTick ==
    [][\A l \in DOMAIN loops :
          IsCheck(l) =>
             /\ Len(sent') <= Len(sent) + 1
             /\ \A s \in DOMAIN savers :
                   Len(savers'[s].rx) <= Len(savers[s].rx) + 1
             /\ TextDispatchDue(l) =>
                   /\ event'.draft # None
                   /\ Unwrap(event'.draft).content_type = "text"
                   /\ loops'[l].last_hash = Some(TextHash)
             /\ (event'.draft # None
                 /\ Unwrap(event'.draft).content_type = "image") =>
                   ~TextDispatchDue(l)
      ]_vars

\* C15 witness: the clipboard offers a text and an image, and the tick has
\* dispatched the text and left the image for later.
C15_Witness ==
    /\ event.kind = "tick"
    /\ event.draft # None
    /\ Unwrap(event.draft).content_type = "text"
    /\ TextSnapshot
    /\ clipboard.image # None
    /\ Unwrap(event.draft).content_hash = TextHash
    /\ loops[event.loop].last_hash = Some(TextHash)
    /\ \A i \in DOMAIN sent : sent[i] # ImageHash


\* The order of the rules of the cascade, and the rules that hold on a text.
RuleOrder == <<"url", "ip_address", "email", "color", "json", "command",
               "timestamp", "markdown", "base64", "code">>
Rank(rule) == CHOOSE i \in 1..Len(RuleOrder) : RuleOrder[i] = rule
Matching(text) ==
    text.rules \cup (IF detect_timestamp(text.stamp) # None
                     THEN {"timestamp"} ELSE {})

\* test_mixed_content_prioritization: "# Header\n```javascript\nfunction
\* test() {}\n```" matches the Markdown rule and the Code rule.
MarkdownWithCode == TextProfile({"markdown", "code"}, NoStamp, FALSE)

\* C16: what classify returns is the subtype of the first rule, in the order
\* Url, IpAddress, Email, Color, Json, Command, Timestamp, Markdown, Base64,
\* Code, that matches the text, and PlainText when no rule matches; a later
\* rule that matches too does not change the result.
C16_FirstMatchWins ==
    (input.kind = "text" /\ output.kind = "returned") =>
        IF Matching(input.text) = {}
        THEN output.subtype = "plain_text"
        ELSE /\ output.subtype \in Matching(input.text)
             /\ \A rule \in Matching(input.text) :
                   Rank(output.subtype) <= Rank(rule)

C16_Witness ==
    /\ input = TextInput(MarkdownWithCode)
    /\ output.kind = "returned"
    /\ output.subtype = "markdown"

\* C17: classify is total: applied to any text it returns a subtype, never
\* fails or panics, and a text that no rule matches is PlainText.
C17_Total ==
    (input.kind = "text" /\ output # NoOutput) =>
        /\ output.kind = "returned"
        /\ Matching(input.text) = {} => output.subtype = "plain_text"

\* C18: for a text that parses as an integer n, if 946684800 <= n <
\* 4102444800 the Timestamp metadata has unix_ms = n * 1000; else if
\* 946684800000 <= n < 7258118400000 it has unix_ms = n; otherwise n is not
\* taken for a unix timestamp. Whenever Timestamp is returned, exactly one of
\* unix_ms, iso8601 and date_string is populated.
C18_UnixRanges ==
    (input.kind = "text" /\ output.kind = "returned") =>
        LET stamp == input.text.stamp
            AtLeast(n, hi, lo) == n[1] > hi \/ (n[1] = hi /\ n[2] >= lo)
            Seconds(n) == AtLeast(n, 946, 684800) /\ ~AtLeast(n, 4102, 444800)
            Millis(n) ==
                AtLeast(n, 946684, 800000) /\ ~AtLeast(n, 7258118, 400000)
            formats == Unwrap(Unwrap(output.metadata).timestamp_formats)
            \* m = n * 1000: m is a multiple of 1000 and m / 1000 = n
            Thousandfold(m, n) ==
                /\ m[2] % 1000 = 0
                /\ m[1] \div 1000 = n[1]
                /\ (m[1] % 1000) * 1000 + (m[2] \div 1000) = n[2]
        IN  /\ stamp.kind = "int" =>
                IF Seconds(stamp.num)
                THEN /\ output.subtype = "timestamp"
                     /\ formats.unix_ms # None
                     /\ Thousandfold(Unwrap(formats.unix_ms), stamp.num)
                ELSE IF Millis(stamp.num)
                THEN /\ output.subtype = "timestamp"
                     /\ formats.unix_ms = Some(stamp.num)
                ELSE output.subtype # "timestamp"
            /\ output.subtype = "timestamp" =>
                Cardinality({field \in {"unix_ms", "iso8601", "date_string"} :
                                formats[field] # None}) = 1

C18_Witness ==
    /\ input.kind = "text"
    /\ input.text.stamp = IntStamp(I64(4102, 444799))
    /\ output.kind = "returned"
    /\ output.subtype = "timestamp"
    /\ Unwrap(Unwrap(output.metadata).timestamp_formats).unix_ms
          = Some(I64(4102444, 799000))

\* C19: the width and height recorded for an image draft are the pixel
\* dimensions of the file stored at its path: an image of W x H pixels in a
\* buffer of W * H * 4 bytes is stored as W x H, also when the ingestion
\* falls back to inferring the dimensions.
C19_RecordedIsStored ==
    (input.kind = "image" /\ output.kind = "entry") =>
        /\ output.stored = <<output.width, output.height>>
        /\ output.stored = <<input.width, input.height>>

\* C20: a headerless buffer of width * height * 4 bytes, (width, height) in
\* the table of common resolutions, ingested without dimensions, is stored
\* with exactly that width and height.
C20_TableRecovered ==
    \A i \in DOMAIN common_dimensions :
        (/\ input = BufferInput(common_dimensions[i][1]
                                  * common_dimensions[i][2] * 4)
         /\ output.kind = "saved") =>
            /\ output.width = common_dimensions[i][1]
            /\ output.height = common_dimensions[i][2]

C20_Witness ==
    /\ input = BufferInput(1366 * 768 * 4)
    /\ output = Saved(1366, 768)

\* C21: an Entry, once in the store, stays there until delete_entry is
\* called with its id or clear_history is called: a step that removes a row
\* is one of these two, and no upsert, toggle_favorite, start or stop of the
\* monitoring, or cleanup removes it.
C21_RemovedOnlyOnRequest ==
    [][\A old \in store :
          (\A new \in store' : new.id # old.id) =>
             (DeleteEntry(old.id) \/ ClearHistory)
      ]_vars

\* The columns toggle_favorite must leave alone.
ContentFields == (FrameFields \ {"is_favorite"}) \cup {"copy_count", "created_at"}

\* C22: toggle_favorite(id) flips is_favorite of exactly the row with that
\* id and changes no other column and no other row; applied once more it
\* restores the store; and is_favorite of a stored row changes in no step
\* other than a toggle_favorite of its id, so that after n toggles, in any
\* interleaving, it is the initial value flipped n times.
C22_ToggleFlipsOne ==
    [][/\ \A id \in 1..MaxDrafts :
             ToggleFavorite(id) =>
                /\ \A old \in store : \E new \in store' :
                      /\ new.id = old.id
                      /\ \A f \in ContentFields : new[f] = old[f]
                      /\ new.is_favorite = (IF old.id = id
                                            THEN ~old.is_favorite
                                            ELSE old.is_favorite)
                /\ Cardinality(store') = Cardinality(store)
                /\ ToggleRow(store', id) = store
       /\ \A old \in store : \A new \in store' :
             (new.id = old.id /\ new.is_favorite # old.is_favorite) =>
                ToggleFavorite(old.id)
      ]_vars

\* C22 witness: of two stored rows one has been toggled to favourite and
\* then counted a repeat, the other is as it was created.
C22_Witness ==
    \E row \in store : \E other \in store :
        /\ row.is_favorite
        /\ row.copy_count = 2
        /\ ~other.is_favorite

\* C23: ingested without matching dimensions, a buffer that carries the
\* signature of an image container (PNG, JPEG, GIF, BMP, TIFF, WebP) is
\* decoded with the codec of that container; it is taken for a headerless
\* pixel buffer only when no container is recognized, whatever its length.
C23_ContainerFirst ==
    (input.kind = "buffer" /\ output # NoOutput) =>
        /\ output.kind = "saved" => input.container \notin ImageContainers
        /\ output.kind \in {"decoded", "verbatim"} =>
              output.container = input.container

\* C24: the Base64 detection accepts a text only if its stripped length
\* less the '=' at its end is not 1 modulo 4 and, n being the decoded size
\* and expected being 4n/3 rounded up and then up to a multiple of 4,
\* stripped length / expected is within 1 +- 0.5 when n <= 10 and within
\* 1 +- 0.2 otherwise; then estimated_original_size = n and encoded_size =
\* the stripped length.
C24_Base64Accepts ==
    (input.kind = "base64" /\ output.kind = "base64"
     /\ output.metadata # None) =>
        LET text == input.text
            meta == Unwrap(output.metadata)
            n == 3 * (text.stripped \div 4) - text.padding
            thirds == IF (4 * n) % 3 = 0 THEN (4 * n) \div 3
                      ELSE (4 * n) \div 3 + 1
            expected == IF thirds % 4 = 0 THEN thirds
                        ELSE thirds + (4 - (thirds % 4))
        IN  /\ (text.stripped - text.padding) % 4 # 1
            /\ decode(text) = Some(n)
            /\ IF n <= 10
               THEN /\ 2 * text.stripped >= expected
                    /\ 2 * text.stripped <= 3 * expected
               ELSE /\ 5 * text.stripped >= 4 * expected
                    /\ 5 * text.stripped <= 6 * expected
            /\ meta.estimated_original_size = n
            /\ meta.encoded_size = text.stripped

\* C24 witness: a text of 42 bytes, two of them whitespace, that encodes 29
\* bytes with one '=' has been accepted.
C24_Witness ==
    /\ input = Base64Input(Base64Text(TRUE, 2, 40, 1, TRUE))
    /\ output.kind = "base64"
    /\ output.metadata # None
    /\ Unwrap(output.metadata).estimated_original_size = 29
    /\ Unwrap(output.metadata).encoded_size = 40

\* C25: building an image from a raw pixel buffer, the alpha byte of the
\* first min(100, pixel count) pixels is sampled; bytes 0 and 2 of every
\* pixel are swapped exactly when most of the sampled alpha values are
\* neither 0 nor 255, and bytes 1 and 3 of every pixel are never changed.
C25_ChannelOrder ==
    (input.kind = "pixels" /\ output.kind = "converted") =>
        LET before == input.rgba_data
            after == output.data
            pixel_count == Len(before) \div 4
            sampled == 1..(IF pixel_count < 100 THEN pixel_count ELSE 100)
            odd_alpha == {i \in sampled : before[4 * i] \notin {0, 255}}
            swap == 2 * Cardinality(odd_alpha) > Cardinality(sampled)
        IN  /\ Len(after) = Len(before)
            /\ \A i \in 1..pixel_count :
                  /\ after[4 * i - 2] = before[4 * i - 2]
                  /\ after[4 * i] = before[4 * i]
                  /\ after[4 * i - 3] =
                        (IF swap THEN before[4 * i - 1] ELSE before[4 * i - 3])
                  /\ after[4 * i - 1] =
                        (IF swap THEN before[4 * i - 3] ELSE before[4 * i - 1])

\* C26: after copy_converted_image has set the skip-next-change flag and
\* written the converted image to the clipboard, the change it caused is
\* not recorded: the tick that reads that image with the flag set
\* dispatches no draft and leaves the flag false, and no draft is ever
\* dispatched for the converted image.
C26_ConvertedSkipped ==
    /\ [](\A i \in DOMAIN sent :
            sent[i] # calculate_hash(ConvertedImage.bytes))
    /\ [][\A l \in DOMAIN loops :
            (/\ IsCheck(l)
             /\ skip_next_change
             /\ clipboard = [text |-> None, image |-> Some(ConvertedImage)]) =>
                /\ event'.draft = None
                /\ sent' = sent
                /\ ~skip_next_change'
         ]_vars

\* C27: while the clipboard content does not change, the detector
\* dispatches only finitely many drafts and no copy_count grows: of a
\* clipboard written once and left alone, the text and the image also when
\* it offers both, each snapshot is dispatched at most once and every stored
\* copy_count stays 1.
C27_UnchangedSettles ==
    /\ \A i \in DOMAIN sent : \A j \in DOMAIN sent :
          sent[i] = sent[j] => i = j
    /\ \A row \in store : row.copy_count = 1

\* The text on the clipboard is larger than the limit and the frontmost
\* application has a bundle id, under which the size is checked.
OversizedInFront ==
    /\ front # None
    /\ Unwrap(front).bundle_id # None
    /\ TextLen(Trim(Unwrap(clipboard.text))) > MaxTextBytes

\* C28: the remembered hash is updated before the vetoes: a new snapshot
\* that is vetoed (excluded application in front, oversized text) or whose
\* image ingestion fails is not dispatched and becomes the remembered hash;
\* and no tick dispatches the content whose hash it remembers, whatever
\* application is in front, so that content is not dispatched until a
\* different snapshot has been seen.
C28_VetoedIsRemembered ==
    [][\A l \in DOMAIN loops :
          IsCheck(l) =>
             LET last == loops[l].last_hash
                 last2 == loops'[l].last_hash
                 draft == event'.draft
                 new_text == TextSnapshot /\ last # Some(TextHash)
                 new_image == /\ ~new_text
                              /\ ~DataUriOnClipboard
                              /\ clipboard.image # None
                              /\ last # Some(ImageHash)
             IN  /\ (new_text /\ (FrontIsExcluded \/ OversizedInFront)) =>
                       /\ draft = None
                       /\ sent' = sent
                       /\ last2 = Some(TextHash)
                 /\ (new_image /\ (FrontIsExcluded
                                   \/ event'.outcome = "ingest_failed")) =>
                       /\ draft = None
                       /\ sent' = sent
                       /\ last2 = Some(ImageHash)
                 /\ (draft # None /\ last # None) =>
                       Unwrap(draft).content_hash # Unwrap(last)
      ]_vars

\* C28 witness: with a non-excluded application in front, a tick has read a
\* text that was never dispatched, found its hash remembered and dispatched
\* nothing.
C28_Witness ==
    /\ event.kind = "tick"
    /\ event.draft = None
    /\ front = Some(EditorApp)
    /\ clipboard = [text |-> Some("alpha"), image |-> None]
    /\ loops[event.loop].last_hash = Some(TextHash)
    /\ \A i \in DOMAIN sent : sent[i] # TextHash

\* C30: when the inference of the dimensions of a raw buffer returns
\* (width, height), width > 0, height > 0 and width * height * 4 is the
\* length of the buffer, whichever step produced it; it returns nothing
\* when the length is below 16 or not a multiple of 4.
C30_InferredFits ==
    (input.kind = "length" /\ output.kind = "inferred") =>
        /\ (input.len < 16 \/ input.len % 4 # 0) =>
              output.dimensions = None
        /\ output.dimensions # None =>
              LET width == Unwrap(output.dimensions)[1]
                  height == Unwrap(output.dimensions)[2]
              IN  /\ width > 0
                  /\ height > 0
                  /\ input.len % width = 0
                  /\ (input.len \div width) % height = 0
                  /\ (input.len \div width) \div height = 4

\* C30 witness: 503 x 1009 pixels, found by the wider factor search.
C30_Witness ==
    /\ input = LengthInput(2030108)
    /\ output = Inferred(Some(<<503, 1009>>))

\* C29: unregister_global_shortcut always terminates: with an app handle
\* and a current shortcut set and the unregistration successful it returns
\* Ok with current_shortcut = None and both locks released; it never waits
\* on a lock it already holds, and the save task never waits for app_handle
\* behind a call that cannot return.
C29_UnregisterReturns ==
    /\ unregistering.pc = "relock" => Free("current_shortcut")
    /\ unregistering.pc = "returned" => unregistering.holds = {}
    /\ \A s \in DOMAIN savers :
          savers[s].pc = "emit" => unregistering.pc # "relock"
=============================================================================
